---- MODULE Spec2Model ----
(***************************************************************************)
(* State-machine model of spellcheck.js: the weighted edit distance        *)
(* (sequenceTable), the ranking (getSuggestions), the asynchronous         *)
(* dictionary loader (loadDictionary) and the input / click listeners.     *)
(* A string is a sequence of one-character strings.                        *)
(***************************************************************************)
EXTENDS Integers, Sequences, FiniteSets, TLC

VARIABLES dictionary, loadState, response, errorLog, fieldValue,
          suggestionList, distanceCalls, lastOp, s1, s2, dp, pc

vars == <<dictionary, loadState, response, errorLog, fieldValue,
          suggestionList, distanceCalls, lastOp, s1, s2, dp, pc>>

uiVars == <<dictionary, loadState, response, errorLog, fieldValue,
            suggestionList, distanceCalls, lastOp>>

distVars == <<s1, s2, dp, pc>>

(***************************************************************************)
(* Bounds and input alphabets                                              *)
(***************************************************************************)
MaxLen == 3

MaxInputLen == 2

DistChars == {"a", "e", "b", "c"}

InputChars == {"c", "a", "t"}

SeqsUpTo(S, n) == UNION {[1..k -> S] : k \in 0..n}

ExtraStrings ==
    { <<"A">>, <<"U">>, <<"-">>, <<"7">>, <<"i">>, <<"o">>, <<"u">>,
      <<"E", "b", "-">>, <<"a", "B", "O", "7">> }

Strings == SeqsUpTo(DistChars, MaxLen) \cup ExtraStrings

ExtraInputs ==
    { <<"c", "a", "t">>, <<"b", "a", "t">>, <<"t", "a", "c", "o">> }

Inputs == SeqsUpTo(InputChars, MaxInputLen) \cup ExtraInputs

Min2(x, y) == IF x <= y THEN x ELSE y

(***************************************************************************)
(* Distance engine                                                         *)
(***************************************************************************)
Vowels == <<"a", "e", "i", "o", "u", "A", "E", "I", "O", "U">>

isVowel_lowercase(char) == \E k \in 1..5 : Vowels[k] = char

isVowel(char) == \E k \in 1..Len(Vowels) : Vowels[k] = char

GapCost == 2

cost_noMatch(char1, char2) ==
    IF isVowel(char1) /\ isVowel(char2) THEN 1
    ELSE IF ~isVowel(char1) /\ ~isVowel(char2) THEN 1
    ELSE 3

cost(char1, char2) ==
    IF char1 = char2 THEN 0
    ELSE IF isVowel(char1) /\ isVowel(char2) THEN 1
    ELSE IF ~isVowel(char1) /\ ~isVowel(char2) THEN 1
    ELSE 3

zeroTable(m, n) == [i \in 0..m |-> [j \in 0..n |-> 0]]

initColumn_triple(t, m) == [i \in 0..m |-> [t[i] EXCEPT ![0] = i * 3]]

initColumn(t, m) == [i \in 0..m |-> [t[i] EXCEPT ![0] = i * GapCost]]

initRow(t, n) == [t EXCEPT ![0] = [j \in 0..n |-> j * GapCost]]

Min3(x, y, z) == Min2(Min2(x, y), z)

cell(t, a, b, i, j) ==
    Min3(t[i - 1][j] + GapCost,
         t[i][j - 1] + GapCost,
         t[i - 1][j - 1] + cost(a[i], b[j]))

RECURSIVE fill(_, _, _, _, _)
fill(t, a, b, i, j) ==
    IF i > Len(a) THEN t
    ELSE IF j > Len(b) THEN fill(t, a, b, i + 1, 1)
    ELSE fill([t EXCEPT ![i][j] = cell(t, a, b, i, j)], a, b, i, j + 1)

dpTable(a, b) ==
    fill(initRow(initColumn(zeroTable(Len(a), Len(b)), Len(a)), Len(b)),
         a, b, 1, 1)

sequenceTable(a, b) == dpTable(a, b)[Len(a)][Len(b)]

(***************************************************************************)
(* Ranker                                                                  *)
(***************************************************************************)
TopK == 10

distances(input) ==
    [k \in 1..Len(dictionary) |->
        [word |-> dictionary[k],
         distance |-> sequenceTable(input, dictionary[k])]]

\* Array.prototype.sort is stable: an item goes after every item that does
\* not compare greater than it.
RECURSIVE insert(_, _)
insert(sorted, item) ==
    IF sorted = <<>> THEN <<item>>
    ELSE IF sorted[Len(sorted)].distance - item.distance <= 0
         THEN Append(sorted, item)
         ELSE Append(insert(SubSeq(sorted, 1, Len(sorted) - 1), item),
                     sorted[Len(sorted)])

RECURSIVE sortFrom(_, _, _)
sortFrom(items, k, sorted) ==
    IF k > Len(items) THEN sorted
    ELSE sortFrom(items, k + 1, insert(sorted, items[k]))

RECURSIVE insert_unstable(_, _)
insert_unstable(sorted, item) ==
    IF sorted = <<>> THEN <<item>>
    ELSE IF sorted[Len(sorted)].distance - item.distance < 0
         THEN Append(sorted, item)
         ELSE Append(insert_unstable(SubSeq(sorted, 1, Len(sorted) - 1), item),
                     sorted[Len(sorted)])

RECURSIVE sortFrom_unstable(_, _, _)
sortFrom_unstable(items, k, sorted) ==
    IF k > Len(items) THEN sorted
    ELSE sortFrom_unstable(items, k + 1, insert_unstable(sorted, items[k]))

sort_unstable(items) == sortFrom_unstable(items, 1, <<>>)

RECURSIVE insert_descending(_, _)
insert_descending(sorted, item) ==
    IF sorted = <<>> THEN <<item>>
    ELSE IF item.distance - sorted[Len(sorted)].distance <= 0
         THEN Append(sorted, item)
         ELSE Append(insert_descending(SubSeq(sorted, 1, Len(sorted) - 1), item),
                     sorted[Len(sorted)])

RECURSIVE sortFrom_descending(_, _, _)
sortFrom_descending(items, k, sorted) ==
    IF k > Len(items) THEN sorted
    ELSE sortFrom_descending(items, k + 1, insert_descending(sorted, items[k]))

sort_descending(items) == sortFrom_descending(items, 1, <<>>)

sort(items) == sortFrom(items, 1, <<>>)

slice_noLimit(items) == items

slice(items) == SubSeq(items, 1, Min2(TopK, Len(items)))

words(items) == [k \in 1..Len(items) |-> items[k].word]

getSuggestions_noGuard(input) == words(slice(sort(distances(input))))

getSuggestions(input) ==
    IF input = <<>> THEN <<>>
    ELSE words(slice(sort(distances(input))))

\* A call with a further argument: getSuggestions declares the single
\* parameter input, so the extra argument is ignored.
suggest(input, limit) == getSuggestions(input)

sequenceTableCalls(input) == IF input = <<>> THEN 0 ELSE Len(dictionary)

(***************************************************************************)
(* Dictionary loader                                                       *)
(***************************************************************************)
WhiteSpace == {" ", "\t", "\n", "\r", "\f"}

RECURSIVE splitFrom(_, _, _)
splitFrom(text, k, cur) ==
    IF k > Len(text) THEN <<cur>>
    ELSE IF text[k] = "\n" THEN <<cur>> \o splitFrom(text, k + 1, <<>>)
    ELSE splitFrom(text, k + 1, Append(cur, text[k]))

split(text) == splitFrom(text, 1, <<>>)

RECURSIVE trimStart(_)
trimStart(w) ==
    IF w # <<>> /\ Head(w) \in WhiteSpace THEN trimStart(Tail(w)) ELSE w

RECURSIVE trimEnd(_)
trimEnd(w) ==
    IF w # <<>> /\ w[Len(w)] \in WhiteSpace
    THEN trimEnd(SubSeq(w, 1, Len(w) - 1)) ELSE w

trim(w) == trimEnd(trimStart(w))

parseDictionary(text) ==
    LET lines == split(text) IN [k \in 1..Len(lines) |-> trim(lines[k])]

NL == <<"\n">>

cat == <<"c", "a", "t">>

bat == <<"b", "a", "t">>

cot == <<"c", "o", "t">>

cab == <<"c", "a", "b">>

act == <<"a", "c", "t">>

at == <<"a", "t">>

ta == <<"t", "a">>

oat == <<"o", "a", "t">>

coat == <<"c", "o", "a", "t">>

TextExample == cat \o NL \o bat \o NL \o cot

TextTrailing == cat \o NL \o bat \o NL

TextPadded ==
    <<" ">> \o cat \o <<"\r">> \o NL \o bat \o <<" ", "\r">> \o NL
    \o <<"\t">> \o cot

TextBlank == <<>>

TextBig ==
    cot \o NL \o bat \o NL \o cat \o NL \o cab \o NL \o act \o NL \o at
    \o NL \o oat \o NL \o ta \o NL \o coat \o NL \o cat \o NL \o <<"a">>
    \o NL \o <<"t">> \o NL \o <<"c", "a">> \o NL

TextEleven ==
    <<"t">> \o NL \o <<"a">> \o NL \o <<"c">> \o NL \o ta \o NL \o at
    \o NL \o cat \o NL \o act \o NL \o <<"c", "a">> \o NL \o <<"o">>
    \o NL \o <<"b">> \o NL \o <<"a", "a">>

DictionaryTexts ==
    {TextExample, TextTrailing, TextPadded, TextBlank, TextBig, TextEleven}

ErrorBodies == { <<>>, <<"4", "0", "4">> }

NoResponse == [status |-> 0, body |-> <<>>]

Limits == {-1, 0, 3, 10, 11}

(***************************************************************************)
(* Initial state: the script has run, the listeners are registered         *)
(***************************************************************************)
Init ==
    /\ dictionary = <<>>
    /\ loadState = "idle"
    /\ response = NoResponse
    /\ errorLog = 0
    /\ fieldValue = <<>>
    /\ suggestionList = <<>>
    /\ distanceCalls = 0
    /\ lastOp = "none"
    /\ s1 = <<>>
    /\ s2 = <<>>
    /\ dp = <<>>
    /\ pc = "none"

(***************************************************************************)
(* loadDictionary, one action per await point                              *)
(***************************************************************************)
DOMContentLoaded ==
    /\ loadState = "idle"
    /\ loadState' = "fetching"
    /\ lastOp' = "load"
    /\ UNCHANGED <<dictionary, response, errorLog, fieldValue,
                   suggestionList, distanceCalls>>
    /\ UNCHANGED distVars

\* fetch() resolves for any HTTP response, error statuses included; the
\* code reads the body without looking at response.ok or response.status.
FetchResolve(status, body) ==
    /\ loadState = "fetching"
    /\ loadState' = "reading"
    /\ response' = [status |-> status, body |-> body]
    /\ lastOp' = "load"
    /\ UNCHANGED <<dictionary, errorLog, fieldValue, suggestionList,
                   distanceCalls>>
    /\ UNCHANGED distVars

FetchReject ==
    /\ loadState = "fetching"
    /\ loadState' = "failed"
    /\ errorLog' = errorLog + 1
    /\ lastOp' = "load"
    /\ UNCHANGED <<dictionary, response, fieldValue, suggestionList,
                   distanceCalls>>
    /\ UNCHANGED distVars

TextResolve ==
    /\ loadState = "reading"
    /\ loadState' = "loaded"
    /\ dictionary' = parseDictionary(response.body)
    /\ lastOp' = "load"
    /\ UNCHANGED <<response, errorLog, fieldValue, suggestionList,
                   distanceCalls>>
    /\ UNCHANGED distVars

TextReject ==
    /\ loadState = "reading"
    /\ loadState' = "failed"
    /\ errorLog' = errorLog + 1
    /\ lastOp' = "load"
    /\ UNCHANGED <<dictionary, response, fieldValue, suggestionList,
                   distanceCalls>>
    /\ UNCHANGED distVars

(***************************************************************************)
(* Listeners                                                               *)
(***************************************************************************)
RECURSIVE appendEach(_, _, _)
appendEach(list, suggestions, k) ==
    IF k > Len(suggestions) THEN list
    ELSE appendEach(Append(list, suggestions[k]), suggestions, k + 1)

InputEvent_noClear(input) ==
    /\ fieldValue' = input
    /\ suggestionList' = appendEach(suggestionList, getSuggestions(input), 1)
    /\ distanceCalls' = sequenceTableCalls(input)
    /\ lastOp' = "input"
    /\ UNCHANGED <<dictionary, loadState, response, errorLog>>
    /\ UNCHANGED distVars

InputEvent_sortInPlace(input) ==
    /\ fieldValue' = input
    /\ suggestionList' = appendEach(<<>>, getSuggestions(input), 1)
    /\ distanceCalls' = sequenceTableCalls(input)
    /\ lastOp' = "input"
    /\ dictionary' = IF input = <<>> THEN dictionary
                     ELSE words(sort(distances(input)))
    /\ UNCHANGED <<loadState, response, errorLog>>
    /\ UNCHANGED distVars

InputEvent(input) ==
    /\ fieldValue' = input
    /\ suggestionList' = appendEach(<<>>, getSuggestions(input), 1)
    /\ distanceCalls' = sequenceTableCalls(input)
    /\ lastOp' = "input"
    /\ UNCHANGED <<dictionary, loadState, response, errorLog>>
    /\ UNCHANGED distVars

SuggestionClick(k) ==
    /\ k \in 1..Len(suggestionList)
    /\ fieldValue' = suggestionList[k]
    /\ suggestionList' = <<>>
    /\ lastOp' = "click"
    /\ UNCHANGED <<dictionary, loadState, response, errorLog, distanceCalls>>
    /\ UNCHANGED distVars

Next ==
    \/ DOMContentLoaded
    \/ \E body \in DictionaryTexts : FetchResolve(200, body)
    \/ \E body \in ErrorBodies : FetchResolve(404, body)
    \/ FetchReject
    \/ TextResolve
    \/ TextReject
    \/ \E input \in Inputs : InputEvent(input)
    \/ \E k \in 1..TopK : SuggestionClick(k)

Spec == Init /\ [][Next]_vars

(***************************************************************************)
(* The distance engine on its own: inputs drawn from Strings               *)
(***************************************************************************)
InitDist ==
    /\ dictionary = <<>>
    /\ loadState = "idle"
    /\ response = NoResponse
    /\ errorLog = 0
    /\ fieldValue = <<>>
    /\ suggestionList = <<>>
    /\ distanceCalls = 0
    /\ lastOp = "none"
    /\ s1 \in Strings
    /\ s2 \in Strings
    /\ dp = <<>>
    /\ pc = "call"

sequenceTableCall ==
    /\ pc = "call"
    /\ dp' = dpTable(s1, s2)
    /\ pc' = "return"
    /\ UNCHANGED <<s1, s2>>
    /\ UNCHANGED uiVars

NextDist == sequenceTableCall

SpecDist == InitDist /\ [][NextDist]_vars

(***************************************************************************)
(* Properties of the distance engine (checked under SpecDist)              *)
(***************************************************************************)
VowelSet == {"a", "e", "i", "o", "u", "A", "E", "I", "O", "U"}

transitionCost(x, y) ==
    IF x = y THEN 0
    ELSE IF (x \in VowelSet) = (y \in VowelSet) THEN 1
    ELSE 3

\* C2: the table returned for (s1, s2) has dp[i][0] = 2i, dp[0][j] = 2j and
\* dp[i][j] = min(dp[i-1][j]+2, dp[i][j-1]+2, dp[i-1][j-1]+cost) with cost
\* 0 / 1 / 1 / 3 for equal / vowel-vowel / consonant-consonant / mixed
\* characters, the result is dp[m][n], the distance to or from the empty
\* string is twice the length, and d(a,e) = 1, d(b,c) = 1, d(a,b) = 3.
C2_Recurrence ==
    pc = "return" =>
        LET m == Len(s1)
            n == Len(s2)
        IN  /\ DOMAIN dp = 0..m
            /\ \A i \in 0..m : DOMAIN dp[i] = 0..n
            /\ \A i \in 0..m : dp[i][0] = 2 * i
            /\ \A j \in 0..n : dp[0][j] = 2 * j
            /\ \A i \in 1..m : \A j \in 1..n :
                  dp[i][j] = Min3(dp[i - 1][j] + 2, dp[i][j - 1] + 2,
                                  dp[i - 1][j - 1]
                                      + transitionCost(s1[i], s2[j]))
            /\ sequenceTable(s1, s2) = dp[m][n]
            /\ (m = 0 => dp[m][n] = 2 * n)
            /\ (n = 0 => dp[m][n] = 2 * m)
            /\ (s1 = <<"a">> /\ s2 = <<"e">> => dp[m][n] = 1)
            /\ (s1 = <<"b">> /\ s2 = <<"c">> => dp[m][n] = 1)
            /\ (s1 = <<"a">> /\ s2 = <<"b">> => dp[m][n] = 3)

C2_Witness ==
    /\ pc = "return"
    /\ s1 = <<"a", "b">>
    /\ s2 = <<"e", "c", "b">>
    /\ dp[2][3] = 3

\* C5: the distance from any string (the empty one included) to itself is 0.
C5_Identity ==
    (pc = "return" /\ s1 = s2) => dp[Len(s1)][Len(s2)] = 0

C5_Witness ==
    /\ pc = "return"
    /\ s1 = s2
    /\ Len(s1) >= 2
    /\ s1[1] # s1[2]
    /\ dp[Len(s1)][Len(s2)] = 0

\* C6: every cell of the table, the result included, is a non-negative
\* integer and is at most 2*(i+j).
C6_Bounds ==
    pc = "return" =>
        /\ \A i \in 0..Len(s1) : \A j \in 0..Len(s2) :
              /\ dp[i][j] \in Nat
              /\ dp[i][j] <= 2 * (i + j)
        /\ sequenceTable(s1, s2) \in Nat
        /\ sequenceTable(s1, s2) <= 2 * (Len(s1) + Len(s2))

C6_Witness ==
    /\ pc = "return"
    /\ Len(s1) = 2
    /\ Len(s2) = 2
    /\ dp[2][2] = 6

(***************************************************************************)
(* Properties of the ranker, the loader and the listeners (under Spec)     *)
(***************************************************************************)
rank(input, k) ==
    1 + Cardinality({j \in 1..Len(dictionary) :
            \/ sequenceTable(input, dictionary[j])
                   < sequenceTable(input, dictionary[k])
            \/ /\ sequenceTable(input, dictionary[j])
                      = sequenceTable(input, dictionary[k])
               /\ j < k})

\* C1: for a non-empty input the result lists the dictionary words by
\* ascending distance, words of equal distance in dictionary order, cut
\* after the first TopK entries; ["cat","bat","cot"] queried with "cat"
\* gives ["cat","bat","cot"].
C1_StableAscending ==
    fieldValue # <<>> =>
        LET r == getSuggestions(fieldValue)
        IN  /\ Len(r) = Cardinality({k \in 1..Len(dictionary) :
                                        rank(fieldValue, k) <= TopK})
            /\ \A k \in 1..Len(dictionary) :
                  rank(fieldValue, k) <= TopK
                      => r[rank(fieldValue, k)] = dictionary[k]
            /\ (dictionary = <<cat, bat, cot>> /\ fieldValue = cat
                   => r = <<cat, bat, cot>>)

C1_Witness ==
    /\ lastOp = "input"
    /\ fieldValue # <<>>
    /\ Len(dictionary) > TopK
    /\ Len(suggestionList) = TopK
    /\ \E j \in 1..Len(dictionary) : \E k \in 1..Len(dictionary) :
          /\ j < k
          /\ sequenceTable(fieldValue, dictionary[j])
                 = sequenceTable(fieldValue, dictionary[k])
          /\ rank(fieldValue, j) <= TopK
          /\ rank(fieldValue, k) > TopK

C4_RoundTrip ==
    \A k \in 1..Len(suggestionList) :
        LET w == suggestionList[k]
            r == getSuggestions(w)
        IN  /\ r # <<>>
            /\ r[1] = w
            /\ sequenceTable(w, r[1]) = 0

\* C4 (amended): every non-empty suggested word, queried again, comes back
\* first and at distance 0.
C4_RoundTripNonEmpty ==
    \A k \in 1..Len(suggestionList) :
        LET w == suggestionList[k]
            r == getSuggestions(w)
        IN  w # <<>> =>
                /\ r # <<>>
                /\ r[1] = w
                /\ sequenceTable(w, r[1]) = 0

C4_Witness ==
    /\ lastOp = "input"
    /\ Len(suggestionList) > 1
    /\ suggestionList[1] = fieldValue
    /\ suggestionList[2] # fieldValue
    /\ \E k \in 1..Len(dictionary) : k > 1 /\ dictionary[k] = fieldValue

\* C7: an empty input gives an empty result for any dictionary and no
\* distance is computed; an empty dictionary gives an empty result for
\* any input.
C7_EmptyInputOrDictionary ==
    /\ getSuggestions(<<>>) = <<>>
    /\ (lastOp = "input" /\ fieldValue = <<>>) =>
          suggestionList = <<>> /\ distanceCalls = 0
    /\ dictionary = <<>> => getSuggestions(fieldValue) = <<>>
    /\ (lastOp = "input" /\ dictionary = <<>>) => suggestionList = <<>>

C7_Witness ==
    /\ lastOp = "input"
    /\ fieldValue = <<>>
    /\ Len(dictionary) > 1
    /\ suggestionList = <<>>

\* C8: handling an input event (getSuggestions and its sequenceTable
\* calls) leaves the dictionary as it was, same words in the same order.
C8_DictionaryNotMutated ==
    [][lastOp' = "input" => dictionary' = dictionary]_vars

C8_Witness ==
    /\ lastOp = "input"
    /\ Len(dictionary) > 1
    /\ suggestionList # <<>>
    /\ suggestionList # SubSeq(dictionary, 1, Len(suggestionList))

LoadFailed ==
    \/ loadState = "failed"
    \/ loadState = "loaded" /\ response.status # 200

\* C9: once loading has failed the failure has been reported, the
\* dictionary is empty and every query returns an empty sequence.
C9_FailedLoadLeavesEmpty ==
    LoadFailed =>
        /\ errorLog > 0
        /\ dictionary = <<>>
        /\ getSuggestions(fieldValue) = <<>>

\* C10: right after an input event the rendered list is getSuggestions of
\* the field text on the current dictionary, older entries removed (so it
\* is empty while the dictionary has not loaded); between input events the
\* list only stays as it is or is cleared.
C10_RenderedIsLatest ==
    /\ [](lastOp = "input" =>
             /\ suggestionList = getSuggestions(fieldValue)
             /\ (loadState # "loaded" => suggestionList = <<>>))
    /\ [][lastOp' # "input" =>
             suggestionList' \in {suggestionList, <<>>}]_vars

C10_Witness ==
    /\ lastOp = "input"
    /\ loadState = "loaded"
    /\ Len(suggestionList) > 1
    /\ suggestionList[1] # dictionary[1]

====
